---- MODULE Spec2Model ----
(***************************************************************************)
(* Class / subclass / feature / spell composition of dungeon-sheets.       *)
(*                                                                         *)
(*   src/dungeonsheets/features/features.py   Feature, FeatureSelector     *)
(*   src/dungeonsheets/classes/classes.py     SubClass, CharClass          *)
(*   src/dungeonsheets/spells/spells.py       Spell, create_spell          *)
(*                                                                         *)
(* Python objects are modelled with an explicit heap: every list and every *)
(* defaultdict is an object with an identity, so that aliasing between     *)
(* instances and class-level defaults is visible.  Python types are        *)
(* entries of typeAttrs (their own attributes plus their base type), and   *)
(* attribute lookup walks instance -> type -> base type as Python does.    *)
(***************************************************************************)
EXTENDS Integers, Sequences, FiniteSets, TLC

VARIABLES
    lists,       \* heap of list objects: lists[id] is the list's contents
    dicts,       \* heap of defaultdict(list) objects: dicts[id] maps the keys present to list ids
    typeAttrs,   \* every type's own class-level attributes (and its base type)
    instances,   \* the CharClass instances constructed so far, in construction order
    ownerHeld,   \* the feature types the owner answers has_feature() with True
    ownerAttrs,  \* attributes set on the owner by setattr(owner, name, self)
    warnLog,     \* warnings emitted through warnings.warn, oldest first
    sel,         \* one FeatureSelector resolution: its inputs and its result
    returned,    \* the types create_spell has returned, oldest first
    calls,       \* the params of every create_spell call, oldest first
    nMut,        \* number of client mutations of instance lists so far
    lastOp       \* the operation that produced the current state

vars == <<lists, dicts, typeAttrs, instances, ownerHeld, ownerAttrs, warnLog,
          sel, returned, calls, nMut, lastOp>>

---------------------------------------------------------------------------
(* Bounds of the model *)

MaxInstances == 2   \* CharClass instances built in one behaviour of Spec
MaxMutations == 1   \* client appends / removals on instance lists
MaxChoices == 2     \* length of feature_choices in the selector specification
MaxCalls == 3       \* create_spell calls

(* Program constants *)

NumLevels == 20     \* range(1, 21) in CharClass.__init__ and apply_subclass
DefaultSpellLevel == 9

---------------------------------------------------------------------------
(* Python values *)

None == "<None>"            \* Python None, for attributes holding atomic values
NoneStr == <<"<None>">>     \* Python None, where the other values are character strings

\* Character strings that the code lower-cases or searches are sequences of
\* one-character strings.
UpperAlpha == <<"A","B","C","D","E","F","G","H","I","J","K","L","M",
                "N","O","P","Q","R","S","T","U","V","W","X","Y","Z">>
LowerAlpha == <<"a","b","c","d","e","f","g","h","i","j","k","l","m",
                "n","o","p","q","r","s","t","u","v","w","x","y","z">>

LowerChar(c) ==
    IF \E i \in DOMAIN UpperAlpha : UpperAlpha[i] = c
    THEN LowerAlpha[CHOOSE i \in DOMAIN UpperAlpha : UpperAlpha[i] = c]
    ELSE c

\* str.lower()
StrLower(s) == [i \in 1..Len(s) |-> LowerChar(s[i])]

\* needle in hay, for str
StrContains(hay, needle) ==
    \E i \in 0..(Len(hay) - Len(needle)) : SubSeq(hay, i + 1, i + Len(needle)) = needle

Range(q) == {q[k] : k \in DOMAIN q}

Min(S) == CHOOSE x \in S : \A y \in S : x <= y

\* a or b: a when a is truthy, else b
Truthy(v) == v # None /\ v # ""
PyOr(a, b) == IF Truthy(a) THEN a ELSE b

---------------------------------------------------------------------------
(* The catalogue the core consumes: concrete Feature, Spell, SubClass and  *)
(* CharClass types, declared the way the rule-data modules declare them.   *)

s_archery == <<"a","r","c","h","e","r","y">>
s_Archery == <<"A","r","c","h","e","r","y">>
s_defense == <<"d","e","f","e","n","s","e">>
s_DEFENSE == <<"D","E","F","E","N","S","E">>
s_dueling == <<"d","u","e","l","i","n","g">>
s_bogus == <<"b","o","g","u","s">>

s_empty == <<>>
s_None == <<"N","o","n","e">>
s_none == <<"n","o","n","e">>
s_NONE == <<"N","O","N","E">>
s_gun == <<"g","u","n">>
s_CHAMP == <<"C","H","A","M","P">>
s_i == <<"i">>
s_g == <<"g">>
s_knight == <<"K","n","i","g","h","t">>
s_school == <<"s","c","h","o","o","l">>
s_theurgy == <<"t","h","e","u","r","g","y">>
s_nonexistent == <<"n","o","n","e","x","i","s","t","e","n","t">>

n_Champion == <<"C","h","a","m","p","i","o","n">>
n_EldritchKnight == <<"E","l","d","r","i","t","c","h"," ","K","n","i","g","h","t">>
n_Gunslinger == <<"G","u","n","s","l","i","n","g","e","r">>
n_Evocation == <<"S","c","h","o","o","l"," ","o","f"," ","E","v","o","c","a","t","i","o","n">>
n_Theurgy == <<"T","h","e","u","r","g","y">>

FightingStyleOptions ==
    (s_archery :> "Archery") @@ (s_defense :> "Defense") @@ (s_dueling :> "Dueling")

\* Identities (dict ids) of the class-level features_by_level mappings.
\* CharClass's is shared by every CharClass type that declares none of its
\* own, SubClass's by every SubClass type that declares none.
DictOf ==
    [CharClass |-> 1, SubClass |-> 2, Fighter |-> 3, Wizard |-> 4,
     Champion |-> 5, EldritchKnight |-> 6, Evocation |-> 7, Theurgy |-> 8]

\* A list element: a type object (isinst FALSE) or an instance of a type.
TypeRef(T) ==
    [type |-> T, name |-> "", source |-> "", needs_implementation |-> FALSE, isinst |-> FALSE]

TypeRefs(ts) == [i \in 1..Len(ts) |-> TypeRef(ts[i])]

\* The class-level lists, as declared: list id -> contents
InitLists == <<
    TypeRefs(<<"FightingStyle", "SecondWind">>),     \* 1  Fighter level 1
    TypeRefs(<<"ActionSurge">>),                     \* 2  Fighter level 2
    TypeRefs(<<"ExtraAttack">>),                     \* 3  Fighter level 5
    TypeRefs(<<"ExtraAttack3">>),                    \* 4  Fighter level 20
    TypeRefs(<<"ArcaneRecovery">>),                  \* 5  Wizard level 1
    TypeRefs(<<"SpellMastery">>),                    \* 6  Wizard level 18
    TypeRefs(<<"ImprovedCritical">>),                \* 7  Champion level 3
    TypeRefs(<<"AdditionalFightingStyle">>),         \* 8  Champion level 10
    TypeRefs(<<"WeaponBond">>),                      \* 9  Eldritch Knight level 3
    TypeRefs(<<"EvocationSavant", "SculptSpells">>), \* 10 Evocation level 2
    TypeRefs(<<"DivineInspiration">>)                \* 11 Theurgy level 2
    >>

InitDicts == <<
    <<>>,                                            \* CharClass: defaultdict(list), empty
    <<>>,                                            \* SubClass: defaultdict(list), empty
    (1 :> 1) @@ (2 :> 2) @@ (5 :> 3) @@ (20 :> 4),   \* Fighter
    (1 :> 5) @@ (18 :> 6),                           \* Wizard
    (3 :> 7) @@ (10 :> 8),                           \* Champion
    (3 :> 9),                                        \* EldritchKnight
    (2 :> 10),                                       \* Evocation
    (2 :> 11)                                        \* Theurgy
    >>

\* The base types, with the class-level defaults the source gives them.
BaseTypes ==
    [Feature |->
        [base |-> None, name |-> "Generic Feature", source |-> "Unknown",
         needs_implementation |-> FALSE],
     FeatureSelector |->
        [base |-> "Feature", options |-> <<>>, name |-> "", source |-> ""],
     SubClass |->
        [base |-> None, name |-> <<>>, features_by_level |-> DictOf.SubClass,
         weapon_proficiencies |-> <<>>, _proficiencies_text |-> <<>>,
         spellcasting_ability |-> None, spell_slots_by_level |-> None,
         spells_known |-> <<>>, spells_prepared |-> <<>>],
     CharClass |->
        [base |-> None, name |-> "Default", level |-> 1, hit_dice_faces |-> 2,
         subclass_select_level |-> 3,
         weapon_proficiencies |-> <<>>, _proficiencies_text |-> <<>>,
         multiclass_weapon_proficiencies |-> <<>>, _multiclass_proficiencies_text |-> <<>>,
         spellcasting_ability |-> None, spell_slots_by_level |-> None,
         spells_known |-> <<>>, spells_prepared |-> <<>>,
         subclass |-> None, subclasses_available |-> <<>>,
         features_by_level |-> DictOf.CharClass],
     Spell |->
        [base |-> None, level |-> 0, name |-> "Unknown spell"]]

FeatureCatalogue ==
    [SecondWind |-> [base |-> "Feature", name |-> "Second Wind", source |-> "Fighter"],
     ActionSurge |-> [base |-> "Feature", name |-> "Action Surge", source |-> "Fighter"],
     ExtraAttack |-> [base |-> "Feature", name |-> "Extra Attack", source |-> "Fighter"],
     ExtraAttack3 |-> [base |-> "ExtraAttack", name |-> "Extra Attack (3x)"],
     FightingStyle |->
        [base |-> "FeatureSelector", name |-> "Fighting Style", source |-> "Fighter",
         options |-> FightingStyleOptions],
     AdditionalFightingStyle |->
        [base |-> "FeatureSelector", name |-> "Additional Fighting Style",
         source |-> "Fighter (Champion)", options |-> FightingStyleOptions],
     Archery |-> [base |-> "Feature", name |-> "Fighting Style (Archery)", source |-> "Various"],
     Defense |-> [base |-> "Feature", name |-> "Fighting Style (Defense)", source |-> "Various"],
     Dueling |->
        [base |-> "Feature", name |-> "Fighting Style (Dueling)", source |-> "Various",
         needs_implementation |-> TRUE],
     ImprovedCritical |->
        [base |-> "Feature", name |-> "Improved Critical", source |-> "Fighter (Champion)"],
     WeaponBond |->
        [base |-> "Feature", name |-> "Weapon Bond", source |-> "Fighter (Eldritch Knight)"],
     ArcaneRecovery |-> [base |-> "Feature", name |-> "Arcane Recovery", source |-> "Wizard"],
     SpellMastery |-> [base |-> "Feature", name |-> "Spell Mastery", source |-> "Wizard"],
     EvocationSavant |->
        [base |-> "Feature", name |-> "Evocation Savant", source |-> "Wizard (Evocation)"],
     SculptSpells |->
        [base |-> "Feature", name |-> "Sculpt Spells", source |-> "Wizard (Evocation)"],
     DivineInspiration |->
        [base |-> "Feature", name |-> "Divine Inspiration", source |-> "Wizard (Theurgy)"]]

SpellCatalogue ==
    [MagicMissile |-> [base |-> "Spell", name |-> "Magic Missile", level |-> 1],
     Shield |-> [base |-> "Spell", name |-> "Shield", level |-> 1],
     Light |-> [base |-> "Spell", name |-> "Light"],           \* a cantrip: level inherited
     HomebrewStub |-> [base |-> "Spell"]]                      \* declared, nothing overridden

SubClassCatalogue ==
    [Champion |->
        [base |-> "SubClass", name |-> n_Champion, features_by_level |-> DictOf.Champion],
     EldritchKnight |->
        [base |-> "SubClass", name |-> n_EldritchKnight, features_by_level |-> DictOf.EldritchKnight,
         spellcasting_ability |-> "intelligence", spell_slots_by_level |-> "EldritchKnightSlots",
         spells_known |-> <<"Shield">>],
     Gunslinger |->
        [base |-> "SubClass", name |-> n_Gunslinger,
         weapon_proficiencies |-> <<"firearms">>, _proficiencies_text |-> <<"firearms">>],
     Evocation |->
        [base |-> "SubClass", name |-> n_Evocation, features_by_level |-> DictOf.Evocation],
     Theurgy |->
        [base |-> "SubClass", name |-> n_Theurgy, features_by_level |-> DictOf.Theurgy,
         weapon_proficiencies |-> <<"mace">>, _proficiencies_text |-> <<"maces">>,
         spellcasting_ability |-> "wisdom", spell_slots_by_level |-> "TheurgySlots",
         spells_prepared |-> <<"Light">>]]

CharClassCatalogue ==
    [Fighter |->
        [base |-> "CharClass", name |-> "Fighter", hit_dice_faces |-> 10,
         features_by_level |-> DictOf.Fighter,
         weapon_proficiencies |-> <<"simple weapons", "martial weapons">>,
         _proficiencies_text |-> <<"all armor", "shields", "simple weapons", "martial weapons">>,
         multiclass_weapon_proficiencies |-> <<"simple weapons", "martial weapons">>,
         _multiclass_proficiencies_text |-> <<"light armor", "medium armor", "shields">>,
         subclasses_available |-> <<"Champion", "EldritchKnight", "Gunslinger">>],
     Wizard |->
        [base |-> "CharClass", name |-> "Wizard", hit_dice_faces |-> 6,
         features_by_level |-> DictOf.Wizard,
         weapon_proficiencies |-> <<"dagger", "quarterstaff">>,
         _proficiencies_text |-> <<"daggers", "quarterstaffs">>,
         spellcasting_ability |-> "intelligence", spell_slots_by_level |-> "WizardSlots",
         spells_known |-> <<"MagicMissile">>, spells_prepared |-> <<"MagicMissile", "Shield">>,
         subclasses_available |-> <<"Evocation", "Theurgy">>],
     Commoner |->
        [base |-> "CharClass", name |-> "Commoner",
         subclasses_available |-> <<"Gunslinger">>]]

InitTypeAttrs ==
    BaseTypes @@ FeatureCatalogue @@ SpellCatalogue @@ SubClassCatalogue @@ CharClassCatalogue

CharClassTypes == DOMAIN CharClassCatalogue
SubClassTypes == DOMAIN SubClassCatalogue
Levels == 1..NumLevels

---------------------------------------------------------------------------
(* Attribute lookup *)

\* getattr(T, a) on a type: the type's own attribute, else its base type's
RECURSIVE ClassAttr(_, _)
ClassAttr(T, a) ==
    IF a \in DOMAIN typeAttrs[T] THEN typeAttrs[T][a]
    ELSE ClassAttr(typeAttrs[T].base, a)

\* issubclass(T, B)
RECURSIVE IsSubclass(_, _)
IsSubclass(T, B) ==
    IF T = B THEN TRUE
    ELSE IF typeAttrs[T].base = None THEN FALSE
    ELSE IsSubclass(typeAttrs[T].base, B)

---------------------------------------------------------------------------
(* Features *)

\* owner.has_feature(feat_class), answered by the Character collaborator
has_feature(held, feat_class) == feat_class \in held

\* Feature.__init__ on a new instance of type f: the instance reads name,
\* source and needs_implementation from its type
NewFeature(f) ==
    [type |-> f, name |-> ClassAttr(f, "name"), source |-> ClassAttr(f, "source"),
     needs_implementation |-> ClassAttr(f, "needs_implementation"), isinst |-> TRUE]

\* (mutant) the placeholder without line 87's needs_implementation = True
PlaceholderNotFlagged(t) ==
    [type |-> "Feature", name |-> ClassAttr(t, "name"), source |-> ClassAttr(t, "source"),
     needs_implementation |-> ClassAttr("Feature", "needs_implementation"), isinst |-> TRUE]

\* FeatureSelector.__new__, lines 83-87: a bare Feature carrying the
\* selector's name and source, flagged as needing implementation
Placeholder(t) ==
    [type |-> "Feature", name |-> ClassAttr(t, "name"), source |-> ClassAttr(t, "source"),
     needs_implementation |-> TRUE, isinst |-> TRUE]

\* FeatureSelector.__new__, lines 88-94: the loop over feature_choices,
\* new_feat being the value carried from one iteration to the next
RECURSIVE ScanChoices(_, _, _, _)
ScanChoices(t, held, choices, new_feat) ==
    IF choices = <<>> THEN new_feat
    ELSE LET selection == Head(choices)
             options == ClassAttr(t, "options")
         IN  IF StrLower(selection) \in DOMAIN options
             THEN LET feat_class == options[StrLower(selection)]
                  IN  IF has_feature(held, feat_class)
                      THEN ScanChoices(t, held, Tail(choices), new_feat)
                      ELSE ScanChoices(t, held, Tail(choices),
                               [NewFeature(feat_class) EXCEPT !.source = ClassAttr(t, "source")])
             ELSE ScanChoices(t, held, Tail(choices), new_feat)

\* FeatureSelector.__new__(t, owner, feature_choices)
ResolveSelector(t, held, choices) == ScanChoices(t, held, choices, Placeholder(t))

---------------------------------------------------------------------------
(* The heap.  Operators that allocate or update take the heap           *)
(* h = [lists, dicts] and return the new one (with the object's id).    *)

\* [] or list(...): a new list object
NewList(h, contents) ==
    [h |-> [h EXCEPT !.lists = Append(@, contents)], id |-> Len(h.lists) + 1]

\* defaultdict(list): a new, empty mapping
NewDict(h) ==
    [h |-> [h EXCEPT !.dicts = Append(@, <<>>)], id |-> Len(h.dicts) + 1]

\* d[i] on a defaultdict(list): a missing key is inserted with a new empty list
DDGet(h, d, i) ==
    IF i \in DOMAIN h.dicts[d]
    THEN [h |-> h, id |-> h.dicts[d][i]]
    ELSE LET n == NewList(h, <<>>)
         IN  [h |-> [n.h EXCEPT !.dicts[d] = (i :> n.id) @@ @], id |-> n.id]

\* d[i] = list
DDSet(h, d, i, id) == [h EXCEPT !.dicts[d] = (i :> id) @@ @]

\* list.extend(more)
ListExtend(h, id, more) == [h EXCEPT !.lists[id] = @ \o more]

---------------------------------------------------------------------------
(* Spells *)

\* S(): Spell declares no __init__, so an instance has no attributes of its
\* own; its name and level are always read from its type
SpellInstance(S) ==
    [type |-> S, name |-> "", source |-> "", needs_implementation |-> FALSE, isinst |-> TRUE]

\* [S() for S in spell_types]
SpellInstances(spell_types) == [i \in 1..Len(spell_types) |-> SpellInstance(spell_types[i])]

---------------------------------------------------------------------------
(* CharClass *)

\* getattr(self, a): the instance's own attribute, else its type's
GetAttr(self, a) ==
    IF a \in DOMAIN self.attrs THEN self.attrs[a] ELSE ClassAttr(self.cls, a)

\* setattr(self, a, v)
SetAttr(self, a, v) == [self EXCEPT !.attrs = (a :> v) @@ @]

\* The inner loop of __init__ (lines 72-76) and of apply_subclass (lines
\* 109-113): one new feature per declared type, selectors resolved
RECURSIVE InstantiateFeatures(_, _, _)
InstantiateFeatures(declared, held, choices) ==
    IF declared = <<>> THEN <<>>
    ELSE LET f == Head(declared).type
             rest == InstantiateFeatures(Tail(declared), held, choices)
         IN  IF IsSubclass(f, "FeatureSelector")
             THEN <<ResolveSelector(f, held, choices)>> \o rest
             ELSE IF IsSubclass(f, "Feature")
             THEN <<NewFeature(f)>> \o rest
             ELSE rest

\* (mutant) no mapping of the instance's own: the class's is used
SharedFeaturesDict(h, cls) == [h |-> h, id |-> ClassAttr(cls, "features_by_level")]

\* line 68: self.features_by_level = defaultdict(list)
FreshFeaturesDict(h, cls) == NewDict(h)

\* (mutant) only the levels the instance has reached are instantiated
InitRangeToLevel(level) == 1..level

\* line 70: the levels __init__ instantiates, whatever the instance's level
InitRange(level) == 1..NumLevels

\* lines 70-77, from level i on: self.features_by_level[i] = fs
RECURSIVE BuildLevels(_, _, _, _, _, _, _)
BuildLevels(h, cls, selfDict, held, choices, level, i) ==
    IF i \notin InitRange(level) THEN h
    ELSE LET fs == NewList(h, <<>>)
             decl == DDGet(fs.h, ClassAttr(cls, "features_by_level"), i)
             made == InstantiateFeatures(decl.h.lists[decl.id], held, choices)
             h1 == ListExtend(decl.h, fs.id, made)
             h2 == DDSet(h1, selfDict, i, fs.id)
         IN  \* (the test makes TLC evaluate this level's heap before the next level)
             IF h2.dicts = <<>> THEN h2
             ELSE BuildLevels(h2, cls, selfDict, held, choices, level, i + 1)

\* The parameters whose values are list objects the caller built
ListParams == {"spells_known", "spells_prepared"}

\* lines 78-79: for k, v in params.items(): setattr(self, k, v).  A list
\* value is an object of the caller's; m is [h, self].
RECURSIVE ApplyParams(_, _, _)
ApplyParams(m, params, keys) ==
    IF keys = {} THEN m
    ELSE LET k == CHOOSE x \in keys : TRUE
         IN  IF k \in ListParams
             THEN LET l == NewList(m.h, SpellInstances(params[k]))
                  IN  ApplyParams([h |-> l.h, self |-> SetAttr(m.self, k, l.id)],
                                  params, keys \ {k})
             ELSE ApplyParams([m EXCEPT !.self = SetAttr(@, k, params[k])],
                              params, keys \ {k})

\* lines 80-81: the class's declared spells, instantiated into new lists
InitSpells(m) ==
    LET known == NewList(m.h, SpellInstances(ClassAttr(m.self.cls, "spells_known")))
        prepared == NewList(known.h, SpellInstances(ClassAttr(m.self.cls, "spells_prepared")))
    IN  [h |-> prepared.h,
         self |-> SetAttr(SetAttr(m.self, "spells_known", known.id),
                          "spells_prepared", prepared.id)]

\* line 95: the strings select_subclass takes for "no subclass"
NoSubclassStrings == {s_empty, s_None, s_none, NoneStr}

\* lines 97-99: the first available subclass whose name contains the string
RECURSIVE FirstMatching(_, _)
FirstMatching(available, subclass_str) ==
    IF available = <<>> THEN None
    ELSE IF StrContains(StrLower(ClassAttr(Head(available), "name")), StrLower(subclass_str))
    THEN Head(available)
    ELSE FirstMatching(Tail(available), subclass_str)

\* CharClass.select_subclass: the subclass type chosen (None for none) and
\* whether a warning was emitted
select_subclass(self, subclass_str) ==
    IF subclass_str \in NoSubclassStrings
    THEN [subclass |-> None, warned |-> FALSE]
    ELSE LET sc == FirstMatching(GetAttr(self, "subclasses_available"), subclass_str)
         IN  [subclass |-> sc, warned |-> (sc = None)]

\* line 107: the levels apply_subclass merges
MergeRange(level) == 1..NumLevels

\* lines 107-114, from level i on: self.features_by_level[i].extend(fs)
RECURSIVE MergeLevels(_, _, _, _, _, _, _)
MergeLevels(h, subcls, selfDict, held, choices, level, i) ==
    IF i \notin MergeRange(level) THEN h
    ELSE LET decl == DDGet(h, ClassAttr(subcls, "features_by_level"), i)
             made == InstantiateFeatures(decl.h.lists[decl.id], held, choices)
             own == DDGet(decl.h, selfDict, i)
             h2 == ListExtend(own.h, own.id, made)
         IN  \* (the test makes TLC evaluate this level's heap before the next level)
             IF h2.dicts = <<>> THEN h2
             ELSE MergeLevels(h2, subcls, selfDict, held, choices, level, i + 1)

\* (mutant) the subclass's proficiencies first
ConcatSubclassFirst(own, sub) == sub \o own

\* lines 116-118: tuple(getattr(self, attr, ())) + tuple(getattr(self.subclass, attr, ()))
ConcatProficiencies(own, sub) == own \o sub

\* (mutant) the subclass's value wins
MergeSubclassWins(own, sub) == PyOr(sub, own)

\* lines 123-128: self.x = self.x or subcls.x
MergeSpellcasting(own, sub) == PyOr(own, sub)

\* CharClass.apply_subclass, self.subclass being an instance of subcls
apply_subclass(m, subcls, held, choices) ==
    LET self == m.self
        h1 == MergeLevels(m.h, subcls, GetAttr(self, "features_by_level"), held, choices,
                          GetAttr(self, "level"), 1)
        s1 == SetAttr(self, "weapon_proficiencies",
                  ConcatProficiencies(GetAttr(self, "weapon_proficiencies"),
                                      ClassAttr(subcls, "weapon_proficiencies")))
        s2 == SetAttr(s1, "_proficiencies_text",
                  ConcatProficiencies(GetAttr(self, "_proficiencies_text"),
                                      ClassAttr(subcls, "_proficiencies_text")))
        s3 == SetAttr(s2, "multiclass_weapon_proficiencies",
                  GetAttr(self, "multiclass_weapon_proficiencies")
                      \o ClassAttr(subcls, "weapon_proficiencies"))
        s4 == SetAttr(s3, "_multiclass_proficiencies_text",
                  GetAttr(self, "_multiclass_proficiencies_text")
                      \o ClassAttr(subcls, "_proficiencies_text"))
        s5 == SetAttr(s4, "spellcasting_ability",
                  MergeSpellcasting(GetAttr(self, "spellcasting_ability"),
                                    ClassAttr(subcls, "spellcasting_ability")))
        s6 == SetAttr(s5, "spell_slots_by_level",
                  MergeSpellcasting(GetAttr(self, "spell_slots_by_level"),
                                    ClassAttr(subcls, "spell_slots_by_level")))
        h2 == ListExtend(h1, GetAttr(self, "spells_known"),
                  SpellInstances(ClassAttr(subcls, "spells_known")))
        h3 == ListExtend(h2, GetAttr(self, "spells_prepared"),
                  SpellInstances(ClassAttr(subcls, "spells_prepared")))
    IN  [h |-> h3, self |-> s6]

\* CharClass.__init__(level, owner, subclass, feature_choices, **params) on
\* a new instance of cls: the heap and the instance when it returns, and
\* whether select_subclass warned
construct(h, cls, level, held, subclass_str, choices, params) ==
    LET self0 == [cls |-> cls, attrs |-> ("level" :> level)]
        d == FreshFeaturesDict(h, cls)
        self1 == SetAttr(self0, "features_by_level", d.id)
        h1 == BuildLevels(d.h, cls, d.id, held, choices, level, 1)
        m2 == ApplyParams([h |-> h1, self |-> self1], params, DOMAIN params)
        m3 == InitSpells(m2)
        chosen == select_subclass(m3.self, subclass_str)
        m4 == [m3 EXCEPT !.self = SetAttr(@, "subclass", chosen.subclass)]
        m5 == IF chosen.subclass # None
              THEN apply_subclass(m4, chosen.subclass, held, choices)
              ELSE m4
    IN  [h |-> m5.h, self |-> m5.self, warned |-> chosen.warned]

\* (mutant) range(1, self.level): the instance's own level is left out
RECURSIVE FeaturesBelow(_, _, _)
FeaturesBelow(self, lvl, last) ==
    IF lvl >= last THEN <<>>
    ELSE LET d == dicts[GetAttr(self, "features_by_level")]
         IN  (IF lvl \in DOMAIN d THEN lists[d[lvl]] ELSE <<>>)
                 \o FeaturesBelow(self, lvl + 1, last)

features_below_level(self) == FeaturesBelow(self, 1, GetAttr(self, "level"))

\* CharClass.features
RECURSIVE FeaturesUpTo(_, _, _)
FeaturesUpTo(self, lvl, last) ==
    IF lvl > last THEN <<>>
    ELSE LET d == dicts[GetAttr(self, "features_by_level")]
         IN  (IF lvl \in DOMAIN d THEN lists[d[lvl]] ELSE <<>>)
                 \o FeaturesUpTo(self, lvl + 1, last)

features(self) == FeaturesUpTo(self, 1, GetAttr(self, "level"))

\* CharClass.is_spellcaster
is_spellcaster(self) == GetAttr(self, "spellcasting_ability") # None

---------------------------------------------------------------------------
(* spells.create_spell *)

\* params.get(k, default)
ParamGet(params, k, default) == IF k \in DOMAIN params THEN params[k] ELSE default

\* (mutant) an independent type per call, as type("UnknownSpell", (Spell,), ...)
\* would build: the base type is left alone
AdHocNames == <<"AdHoc1", "AdHoc2", "AdHoc3", "AdHoc4", "AdHoc5">>
create_spell_independent(types, params) ==
    LET NewSpell == AdHocNames[Cardinality(DOMAIN types \cap Range(AdHocNames)) + 1]
    IN  [types |-> (NewSpell :> [base |-> "Spell",
                                 name |-> ParamGet(params, "name", "Unknown Spell"),
                                 level |-> ParamGet(params, "level", DefaultSpellLevel)])
                       @@ types,
         ret |-> NewSpell]

\* create_spell(**params): NewSpell = Spell; NewSpell.name = ...;
\* NewSpell.level = ...; return NewSpell.  Yields the types after the call
\* and the type returned.
create_spell(types, params) ==
    LET NewSpell == "Spell"
    IN  [types |-> [types EXCEPT
                       ![NewSpell].name = ParamGet(params, "name", "Unknown Spell"),
                       ![NewSpell].level = ParamGet(params, "level", DefaultSpellLevel)],
         ret |-> NewSpell]

---------------------------------------------------------------------------
(* Operations *)

Heap == [lists |-> lists, dicts |-> dicts]

\* cls(level, owner=owner, subclass=subclass_str, feature_choices=choices, **params)
Construct(cls, level, subclass_str, choices, params) ==
    \E r \in {construct(Heap, cls, level, ownerHeld, subclass_str, choices, params)} :
    LET id == Len(instances) + 1
        args == [cls |-> cls, level |-> level, subclass |-> subclass_str,
                 feature_choices |-> choices, params |-> params, held |-> ownerHeld]
    IN  /\ instances' = Append(instances, [cls |-> cls, attrs |-> r.self.attrs, args |-> args])
        /\ lists' = r.h.lists
        /\ dicts' = r.h.dicts
        /\ ownerAttrs' = (ClassAttr(cls, "name") :> id) @@ ownerAttrs
        /\ warnLog' = IF r.warned
                      THEN Append(warnLog, [inst |-> id, subclass_str |-> subclass_str])
                      ELSE warnLog
        /\ lastOp' = [op |-> "construct", inst |-> id]
        /\ UNCHANGED <<typeAttrs, ownerHeld, sel, returned, calls, nMut>>

\* The list instance i holds for level lvl (the key is present once
\* __init__ has run)
LevelList(i, lvl) == dicts[GetAttr(instances[i], "features_by_level")][lvl]

Mutated(i, id, contents) ==
    /\ nMut < MaxMutations
    /\ lists' = [lists EXCEPT ![id] = contents]
    /\ nMut' = nMut + 1
    /\ lastOp' = [op |-> "mutate", inst |-> i]
    /\ UNCHANGED <<dicts, typeAttrs, instances, ownerHeld, ownerAttrs, warnLog,
                   sel, returned, calls>>

\* A client appends a feature to one of an instance's per-level lists
AppendFeature ==
    \E i \in DOMAIN instances, lvl \in {1, 3}, f \in {"Dueling"} :
        Mutated(i, LevelList(i, lvl), Append(lists[LevelList(i, lvl)], NewFeature(f)))

\* A client removes the first feature of one of an instance's per-level lists
RemoveFeature ==
    \E i \in DOMAIN instances, lvl \in {1, 3} :
        /\ lists[LevelList(i, lvl)] # <<>>
        /\ Mutated(i, LevelList(i, lvl), Tail(lists[LevelList(i, lvl)]))

SpellListAttrs == {"spells_known", "spells_prepared"}

\* A client appends a spell to an instance's spells_known or spells_prepared
AppendSpell ==
    \E i \in DOMAIN instances, a \in SpellListAttrs, S \in {"Light"} :
        Mutated(i, GetAttr(instances[i], a),
                Append(lists[GetAttr(instances[i], a)], SpellInstance(S)))

\* A client removes the first spell of an instance's spell list
RemoveSpell ==
    \E i \in DOMAIN instances, a \in SpellListAttrs :
        /\ lists[GetAttr(instances[i], a)] # <<>>
        /\ Mutated(i, GetAttr(instances[i], a), Tail(lists[GetAttr(instances[i], a)]))

\* One resolution of a selector: FeatureSelector.__new__ applied to sel's inputs
Pending ==
    [type |-> None, name |-> "", source |-> "", needs_implementation |-> FALSE, isinst |-> FALSE]

Resolve ==
    /\ sel.result = Pending
    /\ sel' = [sel EXCEPT !.result = ResolveSelector(sel.t, ownerHeld, sel.choices)]
    /\ lastOp' = [op |-> "resolve", inst |-> 0]
    /\ UNCHANGED <<lists, dicts, typeAttrs, instances, ownerHeld, ownerAttrs, warnLog,
                   returned, calls, nMut>>

\* create_spell(**params)
CreateSpell(params) ==
    LET r == create_spell(typeAttrs, params)
    IN  /\ Len(calls) < MaxCalls
        /\ typeAttrs' = r.types
        /\ returned' = Append(returned, r.ret)
        /\ calls' = Append(calls, params)
        /\ lastOp' = [op |-> "create_spell", inst |-> 0]
        /\ UNCHANGED <<lists, dicts, instances, ownerHeld, ownerAttrs, warnLog, sel, nMut>>

---------------------------------------------------------------------------
(* Inputs *)

NoParams == <<>>
NoChoices == <<>>

Selectors == {"FightingStyle", "AdditionalFightingStyle"}
ChoiceStrings == {s_archery, s_Archery, s_DEFENSE, s_dueling, s_bogus}
HeldSets == SUBSET {"Archery", "Defense"}

\* Every sequence over S of length at most n
RECURSIVE SeqsUpTo(_, _)
SeqsUpTo(S, n) ==
    IF n = 0 THEN {<<>>}
    ELSE LET shorter == SeqsUpTo(S, n - 1)
         IN  shorter \cup {Append(q, x) : q \in shorter, x \in S}

\* Construction inputs of the single-construction specification
BuildSubclassStrings ==
    {NoneStr, s_empty, s_None, s_none, s_NONE, s_CHAMP, s_i, s_g, s_gun, s_knight,
     s_school, s_theurgy, s_nonexistent}
BuildChoices == {NoChoices, <<s_Archery, s_defense>>, <<s_bogus, s_dueling>>}
BuildParams ==
    {NoParams,
     [hit_dice_faces |-> 12],
     [spellcasting_ability |-> "charisma", spell_slots_by_level |-> "HomebrewSlots"],
     [weapon_proficiencies |-> <<"whip">>, multiclass_weapon_proficiencies |-> <<"net">>],
     [spells_known |-> <<"HomebrewStub">>, spells_prepared |-> <<"HomebrewStub", "Light">>]}

\* Construction inputs of the lifecycle specification: a class with its own
\* mapping and no subclass, with a subclass that declares its own mapping,
\* a class and a subclass that both rely on the default mappings, and a
\* class and a subclass that both declare spells
SharedClasses == {<<"Fighter", NoneStr>>, <<"Fighter", s_g>>, <<"Commoner", s_g>>,
                  <<"Wizard", s_theurgy>>}
SharedLevels == {3}
SharedChoices == {<<s_archery>>}

SpellParams ==
    {NoParams, [name |-> "Fireball"], [level |-> 3], [name |-> "Fireball", level |-> 3],
     [name |-> "Shield", level |-> 1], [name |-> "Shield"], [level |-> 1],
     [name |-> "Fireball", level |-> 1], [name |-> "Shield", level |-> 3]}

---------------------------------------------------------------------------
(* Specifications *)

InitCommon ==
    /\ lists = InitLists
    /\ dicts = InitDicts
    /\ typeAttrs = InitTypeAttrs
    /\ instances = <<>>
    /\ ownerAttrs = <<>>
    /\ warnLog = <<>>
    /\ returned = <<>>
    /\ calls = <<>>
    /\ nMut = 0
    /\ lastOp = [op |-> "init", inst |-> 0]

\* The lifecycle: classes are added to one character, and a client edits
\* the lists of the instances it holds.
Init ==
    /\ InitCommon
    /\ ownerHeld = {}
    /\ sel = [t |-> "FightingStyle", choices |-> NoChoices, result |-> Pending]

Build ==
    \E c \in SharedClasses, level \in SharedLevels, choices \in SharedChoices :
        /\ Len(instances) < MaxInstances
        /\ Construct(c[1], level, c[2], choices, NoParams)

Next == Build \/ AppendFeature \/ RemoveFeature \/ AppendSpell \/ RemoveSpell

Spec == Init /\ [][Next]_vars

\* One construction, over every level, subclass string and parameter set.
InitBuild ==
    /\ InitCommon
    /\ ownerHeld \in {{}, {"Defense"}}
    /\ sel = [t |-> "FightingStyle", choices |-> NoChoices, result |-> Pending]

BuildOne ==
    \E cls \in CharClassTypes, level \in Levels, subclass_str \in BuildSubclassStrings,
       choices \in BuildChoices, params \in BuildParams :
        /\ instances = <<>>
        /\ Construct(cls, level, subclass_str, choices, params)

NextBuild == BuildOne

SpecBuild == InitBuild /\ [][NextBuild]_vars

\* One selector resolution, the inputs drawn by the initial state.
InitSelector ==
    /\ InitCommon
    /\ ownerHeld \in HeldSets
    /\ sel \in [t : Selectors, choices : SeqsUpTo(ChoiceStrings, MaxChoices), result : {Pending}]

NextSelector == Resolve

SpecSelector == InitSelector /\ [][NextSelector]_vars

\* A sequence of create_spell calls.
NextSpell == \E params \in SpellParams : CreateSpell(params)

SpecSpell == Init /\ [][NextSpell]_vars

---------------------------------------------------------------------------
(* Vocabulary of the properties *)

\* The feature types a CharClass or SubClass type declares for a level, read
\* from the catalogue as declared
Declared(T, lvl) ==
    LET d == InitDicts[ClassAttr(T, "features_by_level")]
    IN  IF lvl \in DOMAIN d THEN InitLists[d[lvl]] ELSE <<>>

\* One instance per declared feature type, a selector replaced by the
\* feature it resolves to
Granted(declared, held, choices) ==
    [k \in DOMAIN declared |->
        IF IsSubclass(declared[k].type, "FeatureSelector")
        THEN ResolveSelector(declared[k].type, held, choices)
        ELSE NewFeature(declared[k].type)]

\* What an instance should hold for one level: the base class's features,
\* then those of the subclass it resolved
ExpectedAtLevel(self, lvl) ==
    LET a == self.args
        sub == GetAttr(self, "subclass")
    IN  Granted(Declared(self.cls, lvl), a.held, a.feature_choices)
            \o (IF sub = None THEN <<>>
                ELSE Granted(Declared(sub, lvl), a.held, a.feature_choices))

RECURSIVE ExpectedFrom(_, _, _)
ExpectedFrom(self, lvl, last) ==
    IF lvl > last THEN <<>>
    ELSE ExpectedAtLevel(self, lvl) \o ExpectedFrom(self, lvl + 1, last)

\* The contents of the list instance self holds for lvl
LevelContents(self, lvl) ==
    LET d == dicts[GetAttr(self, "features_by_level")]
    IN  IF lvl \in DOMAIN d THEN lists[d[lvl]] ELSE <<>>

\* An attribute's value on the instance before any subclass merge: the
\* constructor's override when there is one, else the class's
BeforeMerge(self, a) ==
    IF a \in DOMAIN self.args.params THEN self.args.params[a] ELSE ClassAttr(self.cls, a)

Warned(i) == \E k \in DOMAIN warnLog : warnLog[k].inst = i

---------------------------------------------------------------------------
(* Selector resolution (SpecSelector) *)

\* The positions of feature_choices whose string names an option the owner
\* does not hold
FreeMatches ==
    LET options == ClassAttr(sel.t, "options")
    IN  {k \in DOMAIN sel.choices :
            /\ StrLower(sel.choices[k]) \in DOMAIN options
            /\ ~has_feature(ownerHeld, options[StrLower(sel.choices[k])])}

OptionAt(k) == ClassAttr(sel.t, "options")[StrLower(sel.choices[k])]

\* C2: the selector returns the option matched by the FIRST choice string
\* whose option the owner does not hold, stamped with the selector's source;
\* later choice strings never change the result, and an option the owner
\* holds is never returned.
C2_FirstFreeMatchWins ==
    sel.result # Pending =>
        /\ FreeMatches # {} =>
              /\ sel.result.type = OptionAt(Min(FreeMatches))
              /\ sel.result.source = ClassAttr(sel.t, "source")
        /\ ~has_feature(ownerHeld, sel.result.type)

\* C3: with no choice naming an option the owner does not hold, resolution
\* yields the placeholder (the selector's name and source,
\* needs_implementation set); with one, it yields an instance of a concrete
\* option, stamped with the selector's source, and not the placeholder.
C3_PlaceholderIffNoMatch ==
    sel.result # Pending =>
        /\ FreeMatches = {} =>
              sel.result = [type |-> "Feature", name |-> ClassAttr(sel.t, "name"),
                            source |-> ClassAttr(sel.t, "source"),
                            needs_implementation |-> TRUE, isinst |-> TRUE]
        /\ FreeMatches # {} =>
              /\ sel.result.type \in {OptionAt(k) : k \in FreeMatches}
              /\ sel.result.type # "Feature"
              /\ sel.result.isinst
              /\ sel.result.name = ClassAttr(sel.result.type, "name")
              /\ sel.result.needs_implementation
                     = ClassAttr(sel.result.type, "needs_implementation")
              /\ sel.result.source = ClassAttr(sel.t, "source")

\* Every choice that names an option names one the owner already holds, and
\* the resolution has produced the placeholder
C3_Witness ==
    /\ sel.result # Pending
    /\ FreeMatches = {}
    /\ \E k \in DOMAIN sel.choices :
           StrLower(sel.choices[k]) \in DOMAIN ClassAttr(sel.t, "options")
    /\ sel.result.needs_implementation
    /\ sel.result.name = "Additional Fighting Style"

---------------------------------------------------------------------------
(* Construction (SpecBuild) *)

\* C1: the features property of an instance constructed at level L is the
\* concatenation, for lvl = 1..L in increasing order, of the base class's
\* declared features at lvl followed by the resolved subclass's declared
\* features at lvl: nothing declared above L appears, nothing is dropped.
C1_FeaturesUpToLevel ==
    \A i \in DOMAIN instances :
        features(instances[i]) = ExpectedFrom(instances[i], 1, instances[i].args.level)

\* A level-10 Fighter that resolved Champion: its features mix base and
\* subclass features of several levels, with both selectors resolved
C1_Witness ==
    \E i \in DOMAIN instances :
        /\ instances[i].args.level = 10
        /\ GetAttr(instances[i], "subclass") = "Champion"
        /\ instances[i].args.feature_choices # <<>>
        /\ \E k \in DOMAIN features(instances[i]) :
               features(instances[i])[k].name = "Improved Critical"
        /\ Len(features(instances[i])) = 6

\* C5 as stated: after construction at level L every per-level list above L
\* is empty, and subclass features are merged only when L has reached the
\* class's subclass_select_level.
C5_OnlyUpToLevel ==
    \A i \in DOMAIN instances :
        LET self == instances[i]
            L == self.args.level
            sub == GetAttr(self, "subclass")
        IN  /\ \A lvl \in Levels : lvl > L => LevelContents(self, lvl) = <<>>
            /\ (/\ sub # None
                /\ \E lvl \in Levels :
                       LevelContents(self, lvl)
                           # Granted(Declared(self.cls, lvl), self.args.held,
                                     self.args.feature_choices))
               => L >= GetAttr(self, "subclass_select_level")

\* C5 as amended: after construction at level L the instance's
\* features_by_level holds a list for every level 1..20, whatever L is: the
\* base class's declared features at that level followed by the resolved
\* subclass's, whatever subclass_select_level is.
C5_EveryLevelBuilt ==
    \A i \in DOMAIN instances :
        \A lvl \in Levels :
            /\ lvl \in DOMAIN dicts[GetAttr(instances[i], "features_by_level")]
            /\ LevelContents(instances[i], lvl) = ExpectedAtLevel(instances[i], lvl)

\* A level-1 Fighter (below subclass_select_level 3) that resolved Champion
\* and holds base features of level 5 and subclass features of level 10
C5_Witness ==
    \E i \in DOMAIN instances :
        /\ instances[i].args.level = 1
        /\ instances[i].args.level < GetAttr(instances[i], "subclass_select_level")
        /\ GetAttr(instances[i], "subclass") = "Champion"
        /\ LevelContents(instances[i], 5) # <<>>
        /\ LevelContents(instances[i], 10) # <<>>

\* The positions of subclasses_available whose name contains the string,
\* case-insensitively
MatchingSubclasses(self) ==
    LET available == ClassAttr(self.cls, "subclasses_available")
    IN  {k \in DOMAIN available :
            StrContains(StrLower(ClassAttr(available[k], "name")),
                        StrLower(self.args.subclass))}

\* The subclass string is absent, empty or "none" in any letter case
NamesNoSubclass(subclass_str) ==
    \/ subclass_str = NoneStr
    \/ subclass_str = <<>>
    \/ StrLower(subclass_str) = s_none

\* The instance carries the base class's data alone
BaseClassAlone(self) ==
    /\ \A lvl \in Levels :
           LevelContents(self, lvl)
               = Granted(Declared(self.cls, lvl), self.args.held, self.args.feature_choices)
    /\ \A a \in {"weapon_proficiencies", "_proficiencies_text",
                 "multiclass_weapon_proficiencies", "_multiclass_proficiencies_text",
                 "spellcasting_ability", "spell_slots_by_level"} :
           GetAttr(self, a) = BeforeMerge(self, a)
    /\ \A a \in SpellListAttrs :
           lists[GetAttr(self, a)] = SpellInstances(ClassAttr(self.cls, a))

\* C6: a subclass name that is absent, empty or "none" in any letter case
\* gives subclass None without a warning; any other gives an instance of the
\* first entry of subclasses_available whose name contains it
\* case-insensitively, or, when none does, subclass None with a warning and
\* the base class's data alone.
C6_SubclassResolution ==
    \A i \in DOMAIN instances :
        LET self == instances[i]
            available == ClassAttr(self.cls, "subclasses_available")
        IN  IF NamesNoSubclass(self.args.subclass)
            THEN GetAttr(self, "subclass") = None /\ ~Warned(i)
            ELSE IF MatchingSubclasses(self) # {}
            THEN /\ GetAttr(self, "subclass") = available[Min(MatchingSubclasses(self))]
                 /\ ~Warned(i)
            ELSE /\ GetAttr(self, "subclass") = None
                 /\ Warned(i)
                 /\ BaseClassAlone(self)

\* C7: after a subclass merge weapon_proficiencies and _proficiencies_text
\* are the instance's own tuple followed by the subclass's, the multiclass
\* tuples are the prior multiclass values followed by all of the subclass's
\* proficiencies, and the class-level tuples of every type are unchanged.
C7_ProficienciesMerged ==
    /\ \A i \in DOMAIN instances :
        LET self == instances[i]
            sub == GetAttr(self, "subclass")
        IN  sub # None =>
              /\ GetAttr(self, "weapon_proficiencies")
                    = BeforeMerge(self, "weapon_proficiencies")
                          \o ClassAttr(sub, "weapon_proficiencies")
              /\ GetAttr(self, "_proficiencies_text")
                    = BeforeMerge(self, "_proficiencies_text")
                          \o ClassAttr(sub, "_proficiencies_text")
              /\ GetAttr(self, "multiclass_weapon_proficiencies")
                    = BeforeMerge(self, "multiclass_weapon_proficiencies")
                          \o ClassAttr(sub, "weapon_proficiencies")
              /\ GetAttr(self, "_multiclass_proficiencies_text")
                    = BeforeMerge(self, "_multiclass_proficiencies_text")
                          \o ClassAttr(sub, "_proficiencies_text")
    /\ \A T \in CharClassTypes \cup SubClassTypes \cup {"CharClass", "SubClass"} :
           typeAttrs[T] = InitTypeAttrs[T]

\* A Fighter merged with a subclass that declares proficiencies of its own
C7_Witness ==
    \E i \in DOMAIN instances :
        /\ instances[i].cls = "Fighter"
        /\ instances[i].args.params = NoParams
        /\ GetAttr(instances[i], "subclass") = "Gunslinger"
        /\ GetAttr(instances[i], "weapon_proficiencies")
               = <<"simple weapons", "martial weapons", "firearms">>

\* C8: after a subclass merge spellcasting_ability and spell_slots_by_level
\* are the CharClass's own value when it had one, else the subclass's; an
\* instance is a spellcaster iff its class or its merged subclass defines
\* spellcasting_ability.
C8_SpellcastingMerged ==
    \A i \in DOMAIN instances :
        LET self == instances[i]
            sub == GetAttr(self, "subclass")
        IN  /\ sub # None =>
                \A a \in {"spellcasting_ability", "spell_slots_by_level"} :
                    GetAttr(self, a) = IF BeforeMerge(self, a) # None
                                       THEN BeforeMerge(self, a)
                                       ELSE ClassAttr(sub, a)
            /\ is_spellcaster(self)
                   <=> \/ BeforeMerge(self, "spellcasting_ability") # None
                       \/ sub # None /\ ClassAttr(sub, "spellcasting_ability") # None

\* A Wizard (intelligence) merged with a subclass that defines another
\* ability: the class's own ability stays
C8_Witness ==
    \E i \in DOMAIN instances :
        /\ instances[i].cls = "Wizard"
        /\ GetAttr(instances[i], "subclass") = "Theurgy"
        /\ instances[i].args.params = NoParams
        /\ GetAttr(instances[i], "spellcasting_ability") = "intelligence"
        /\ is_spellcaster(instances[i])

\* C10: every extra keyword parameter k=v of the constructor is an attribute
\* override that survives construction: attribute k is v afterwards, merged
\* with the subclass's data where a merge applies, never the class default.
C10_OverridesSurvive ==
    \A i \in DOMAIN instances :
        LET self == instances[i]
            sub == GetAttr(self, "subclass")
            params == self.args.params
        IN  \A k \in DOMAIN params :
              CASE k \in ListParams ->
                     lists[GetAttr(self, k)]
                         = SpellInstances(params[k])
                               \o (IF sub = None THEN <<>>
                                   ELSE SpellInstances(ClassAttr(sub, k)))
                [] k = "weapon_proficiencies" ->
                     GetAttr(self, k)
                         = params[k] \o (IF sub = None THEN <<>> ELSE ClassAttr(sub, k))
                [] k = "multiclass_weapon_proficiencies" ->
                     GetAttr(self, k)
                         = params[k] \o (IF sub = None THEN <<>>
                                         ELSE ClassAttr(sub, "weapon_proficiencies"))
                [] OTHER -> GetAttr(self, k) = params[k]

---------------------------------------------------------------------------
(* Aliasing (Spec) *)

\* Every list a dict refers to
ListsOf(d) == {dicts[d][k] : k \in DOMAIN dicts[d]}

\* The list objects an instance holds
ListsHeld(self) ==
    ListsOf(GetAttr(self, "features_by_level"))
        \cup {GetAttr(self, "spells_known"), GetAttr(self, "spells_prepared")}

ClassLevelDicts == {ClassAttr(T, "features_by_level") :
                       T \in CharClassTypes \cup SubClassTypes \cup {"CharClass", "SubClass"}}

\* No instance shares a mapping or a list with another instance or with a
\* class-level default
NoSharing ==
    /\ \A i \in DOMAIN instances :
        /\ GetAttr(instances[i], "features_by_level") \notin ClassLevelDicts
        /\ GetAttr(instances[i], "spells_known") # GetAttr(instances[i], "spells_prepared")
        /\ \A d \in ClassLevelDicts : ListsHeld(instances[i]) \cap ListsOf(d) = {}
    /\ \A i, j \in DOMAIN instances :
        i # j => /\ GetAttr(instances[i], "features_by_level")
                       # GetAttr(instances[j], "features_by_level")
                 /\ ListsHeld(instances[i]) \cap ListsHeld(instances[j]) = {}

\* What an instance shows: its features and its two spell lists
Shown(self) ==
    <<features(self), [lvl \in Levels |-> LevelContents(self, lvl)],
      lists[GetAttr(self, "spells_known")], lists[GetAttr(self, "spells_prepared")]>>

\* The feature types every CharClass and SubClass type declares per level
DeclaredNow ==
    [T \in CharClassTypes \cup SubClassTypes \cup {"CharClass", "SubClass"} |->
        [lvl \in Levels |->
            LET d == dicts[ClassAttr(T, "features_by_level")]
            IN  IF lvl \in DOMAIN d THEN lists[d[lvl]] ELSE <<>>]]

\* C4: instances never share a features_by_level mapping, a per-level list
\* or a spell list with one another or with a class-level default; a step
\* that appends to or removes from one instance's lists, or that constructs
\* an instance, changes nothing any other instance shows, and never the
\* feature types the CharClass and SubClass types declare per level.
C4_NoAliasing ==
    [][/\ NoSharing'
       /\ \A j \in DOMAIN instances :
              \/ lastOp'.op = "mutate" /\ lastOp'.inst = j
              \/ Shown(instances[j])' = Shown(instances[j])
       /\ DeclaredNow' = DeclaredNow]_vars

\* Two instances of the same class, built with the same subclass, one of
\* which a client has just edited
C4_Witness ==
    /\ Len(instances) = 2
    /\ instances[1].cls = instances[2].cls
    /\ GetAttr(instances[1], "subclass") = "Gunslinger"
    /\ GetAttr(instances[2], "subclass") = "Gunslinger"
    /\ lastOp.op = "mutate"
    /\ Shown(instances[1]) # Shown(instances[2])

---------------------------------------------------------------------------
(* create_spell (SpecSpell) *)

CataloguedSpells == DOMAIN SpellCatalogue

====
